---- MODULE Spec2Model ----
(***************************************************************************)
(* Model of src/app/api/entities/[id]/route.ts: the GET, PATCH and DELETE  *)
(* handlers of /api/entities/[id].                                         *)
(*                                                                         *)
(* A handler is an async function.  Between two awaits its code runs       *)
(* without interruption, so one action of the model is the completion of   *)
(* one awaited call (getServerSession, tenantContext.getContext,           *)
(* request.json, an entityService operation) together with the synchronous *)
(* code that follows it up to the next await or to the return, the catch   *)
(* block included.  What the awaited call returns or throws is the         *)
(* action's input.                                                         *)
(*                                                                         *)
(* Spec     one request at a time, over the full input space.              *)
(* SpecConc NReq requests in flight at once, each from its own client,     *)
(*          over a reduced input space.                                    *)
(***************************************************************************)
EXTENDS Integers, Sequences, FiniteSets, TLC

VARIABLES
    h,      \* h[r]: the invocation running in slot r (its locals and what it did)
    load    \* "single" or "concurrent": which requests the environment sends

vars == <<h, load>>

\* Number of requests in flight at once in SpecConc.
NReq == 2

\* z.string().min(1).max(255)
MinNameLength == 1
MaxNameLength == 255

Slots == IF load = "single" THEN {1} ELSE 1..NReq

(***************************************************************************)
(* JavaScript / JSON values.  A string carries its length (its number of   *)
(* UTF-16 code units, what zod's min and max count) beside its content.    *)
(***************************************************************************)
Undefined == [type |-> "undefined"]
Null == [type |-> "null"]
Str(v, n) == [type |-> "string", val |-> v, len |-> n]
Num(v) == [type |-> "number", val |-> v]
Obj(f) == [type |-> "object", fields |-> f]

\* JavaScript truthiness, as `!x` uses it.
Falsy(v) ==
    \/ v.type \in {"undefined", "null"}
    \/ v.type = "string" /\ v.len = 0

(***************************************************************************)
(* Error messages are sequences of characters, so that                     *)
(* String.prototype.includes is computed and not assumed.                  *)
(***************************************************************************)
Marker == <<"U","n","a","u","t","h","o","r","i","z","e","d">>
MsgUnauthorizedTenant ==
    Marker \o <<":"," ","w","r","o","n","g"," ","t","e","n","a","n","t">>
MsgLowercase == <<"u","n","a","u","t","h","o","r","i","z","e","d">>
MsgNotFound == <<"E","n","t","i","t","y"," ","n","o","t"," ","f","o","u","n","d">>
MsgRefused == <<"E","C","O","N","N","R","E","F","U","S","E","D">>
MsgBadJson ==
    <<"U","n","e","x","p","e","c","t","e","d"," ","t","o","k","e","n">>

\* s.includes(sub)
Includes(s, sub) ==
    \E i \in 0..(Len(s) - Len(sub)) : SubSeq(s, i + 1, i + Len(sub)) = sub

(***************************************************************************)
(* Thrown values.  cls is the class instanceof tests; kind is what the     *)
(* failure is about in the collaborator's own terms (the handler never     *)
(* reads it).                                                              *)
(***************************************************************************)
Err(kind, msg) == [cls |-> "Error", kind |-> kind, message |-> msg]
ThrownString(msg) == [cls |-> "String", kind |-> "other", message |-> msg]
ZodError(issues) ==
    [cls |-> "ZodError", kind |-> "validation", message |-> <<>>, errors |-> issues]

InstanceOfError(e) == e.cls \in {"Error", "ZodError"}
InstanceOfZodError(e) == e.cls = "ZodError"

Returned(v) == [ok |-> TRUE, value |-> v]
Threw(e) == [ok |-> FALSE, error |-> e]

(***************************************************************************)
(* What the collaborators can hand back.  Under load "single" the full     *)
(* input space; under load "concurrent" each slot is one client with its   *)
(* own user, tenant and entity, and the input space is reduced.            *)
(***************************************************************************)
UserOf(r) == Str(<<"u1", "u2", "u3", "u4">>[r], 2)
TenantOf(r) == Str(<<"t1", "t2", "t3", "t4">>[r], 2)
EntityIdOf(r) == Str(<<"e1", "e2", "e3", "e4">>[r], 2)

Users(r) == IF load = "single" THEN {UserOf(1), UserOf(2)} ELSE {UserOf(r)}
Tenants(r) == IF load = "single" THEN {TenantOf(1), TenantOf(2)} ELSE {TenantOf(r)}
ResourceIds(r) == IF load = "single" THEN {EntityIdOf(1), EntityIdOf(2)} ELSE {EntityIdOf(r)}

Methods == {"GET", "PATCH", "DELETE"}

\* request.nextUrl.searchParams.get("permanent"): null when the parameter is absent.
QueryValues(m) ==
    IF m # "DELETE" THEN {Null}
    ELSE IF load = "single"
         THEN {Null, Str("true", 4), Str("TRUE", 4), Str("false", 5),
               Str("1", 1), Str("", 0)}
         ELSE {Null, Str("true", 4)}

SessionOf(userId) == [type |-> "object", user |-> [type |-> "object", id |-> userId]]

Sessions(r) ==
    {Null} \cup {SessionOf(u) : u \in Users(r)}
    \cup (IF load = "single"
          THEN {[type |-> "object", user |-> Undefined],
                SessionOf(Undefined), SessionOf(Str("", 0))}
          ELSE {})

LookupErrors ==
    IF load = "single"
    THEN {Err("other", MsgRefused), Err("other", Marker)}
    ELSE {Err("other", MsgRefused)}

DomainErrors ==
    IF load = "single"
    THEN {Err("unauthorized", Marker), Err("unauthorized", MsgUnauthorizedTenant),
          Err("unauthorized", MsgLowercase), Err("missing", MsgNotFound),
          Err("other", MsgRefused), ThrownString(Marker)}
    ELSE {Err("unauthorized", Marker), Err("other", MsgRefused)}

Revisions == IF load = "single" THEN {"v1", "v2"} ELSE {"v1"}
Entity(id, rev) == [type |-> "object", id |-> id, rev |-> rev]

SchemaKeys == {"name", "legalForm", "status", "activityCode"}
BodyKeys == SchemaKeys \cup {"extra"}
StatusEnum == {"ACTIVE", "PENDING", "ARCHIVED", "SUSPENDED"}

NameValues ==
    {Undefined, Null, Str("", 0), Str("A", MinNameLength),
     Str("N255", MaxNameLength), Str("N256", MaxNameLength + 1)}
LegalFormValues == {Undefined, Str("LLC", 3), Num("7")}
StatusValues == {Undefined, Str("ACTIVE", 6), Str("DELETED", 7)}
ActivityCodeValues == {Undefined, Str("6201", 4)}
ExtraValues == {Undefined, Str("x", 1)}

Bodies ==
    IF load = "single"
    THEN {Obj([name |-> n, legalForm |-> l, status |-> s, activityCode |-> a,
               extra |-> x]) :
            n \in NameValues, l \in LegalFormValues, s \in StatusValues,
            a \in ActivityCodeValues, x \in ExtraValues}
         \cup {Null, Str("LLC", 3)}
    ELSE {Obj([k \in BodyKeys |-> IF k = "legalForm" THEN Str("LLC", 3) ELSE Undefined]),
          Obj([k \in BodyKeys |-> IF k = "name" THEN Str("", 0) ELSE Undefined])}

SessionOutcomes(r) ==
    {Returned(s) : s \in Sessions(r)} \cup {Threw(e) : e \in LookupErrors}
ContextOutcomes(r) ==
    {Returned([type |-> "object", tenantId |-> t]) : t \in Tenants(r)}
    \cup {Threw(e) : e \in LookupErrors}
\* What request.json() settles with: the request's body parsed as JSON, or a
\* SyntaxError when the body is not JSON.  A GET or DELETE carries no body.
NoPayload == Threw(Err("other", MsgBadJson))
Payloads(m) ==
    IF m # "PATCH" THEN {NoPayload}
    ELSE {Returned(b) : b \in Bodies}
         \cup (IF load = "single" THEN {Threw(Err("other", MsgBadJson))} ELSE {})
EntityOutcomes(id) ==
    {Returned(Entity(id, v)) : v \in Revisions} \cup {Threw(e) : e \in DomainErrors}
VoidOutcomes ==
    {Returned(Undefined)} \cup {Threw(e) : e \in DomainErrors}

(***************************************************************************)
(* updateEntitySchema and its parse.                                       *)
(***************************************************************************)
Issue(path, code) == [path |-> path, code |-> code]

\* Fault: the min(1) constraint left out.
NameIssuesLoose(v) ==
    IF v.type = "undefined" THEN {}
    ELSE IF v.type # "string" THEN {Issue("name", "invalid_type")}
    ELSE IF v.len > MaxNameLength THEN {Issue("name", "too_big")}
    ELSE {}
\* z.string().min(1).max(255).optional()
NameIssues(v) ==
    IF v.type = "undefined" THEN {}
    ELSE IF v.type # "string" THEN {Issue("name", "invalid_type")}
    ELSE IF v.len < MinNameLength THEN {Issue("name", "too_small")}
    ELSE IF v.len > MaxNameLength THEN {Issue("name", "too_big")}
    ELSE {}

\* z.string().optional()
StringIssues(k, v) ==
    IF v.type = "undefined" \/ v.type = "string" THEN {}
    ELSE {Issue(k, "invalid_type")}

\* z.enum([...]).optional()
StatusIssues(v) ==
    IF v.type = "undefined" THEN {}
    ELSE IF v.type # "string" THEN {Issue("status", "invalid_type")}
    ELSE IF v.val \notin StatusEnum THEN {Issue("status", "invalid_enum_value")}
    ELSE {}

FieldIssues(f) ==
    NameIssues(f.name) \cup StringIssues("legalForm", f.legalForm)
    \cup StatusIssues(f.status) \cup StringIssues("activityCode", f.activityCode)

\* Fault: the object schema in passthrough mode, unknown keys kept.
StripPassthrough(f) == f
\* z.object strips the keys the schema does not name.
Strip(f) == [k \in SchemaKeys |-> f[k]]

\* updateEntitySchema.parse(body): the parsed input, or a thrown ZodError.
updateEntitySchema_parse(body) ==
    IF body.type # "object" THEN Threw(ZodError({Issue("", "invalid_type")}))
    ELSE IF FieldIssues(body.fields) # {}
         THEN Threw(ZodError(FieldIssues(body.fields)))
         ELSE Returned(Obj(Strip(body.fields)))

(***************************************************************************)
(* One invocation of a handler: its arguments, its locals, and a record of *)
(* what it did (the awaited results it got, the steps it started, the      *)
(* entityService calls, log entries and responses it made).                *)
(***************************************************************************)
NoRequest ==
    [pc |-> "idle", method |-> "none", id |-> Undefined, query |-> Null,
     payload |-> NoPayload,
     session |-> Undefined, ctx |-> Undefined, body |-> Undefined,
     input |-> Undefined, permanent |-> FALSE,
     got |-> <<>>, started |-> <<>>, calls |-> <<>>, responses |-> <<>>,
     errorLog |-> <<>>, infoLog |-> <<>>]

\* The framework invokes the handler, which runs up to `await getServerSession`.
NewRequest(m, id, query, payload) ==
    [NoRequest EXCEPT !.pc = "session", !.method = m, !.id = id, !.query = query,
                      !.payload = payload,
                      !.started = <<"session">>]

\* The handler starts its next step and suspends on it.
Start(q, step) == [q EXCEPT !.pc = step, !.started = Append(@, step)]

\* The awaited call of step `step` settled with `res`.
Got(q, step, res) == [q EXCEPT !.got = Append(@, [step |-> step, outcome |-> res])]

\* return NextResponse.json(body, { status })
NextResponse_json(q, body, status) ==
    [q EXCEPT !.pc = "done", !.started = Append(@, "response"),
              !.responses = Append(@, [status |-> status, body |-> body])]

logger_error(q, message, error) ==
    [q EXCEPT !.errorLog = Append(@, [message |-> message, error |-> error,
                                      entityId |-> q.id])]
logger_info(q, message, fields) ==
    [q EXCEPT !.infoLog = Append(@, [message |-> message, fields |-> fields])]

\* entityService.<op>(...args)
Call(q, op, args) == [q EXCEPT !.calls = Append(@, [op |-> op, args |-> args])]

\* session?.user?.id
UserIdOf(session) ==
    IF session.type \in {"undefined", "null"} THEN Undefined
    ELSE IF session.user.type \in {"undefined", "null"} THEN Undefined
    ELSE session.user.id

\* Fault: the identifier compared with undefined and null only, "" let through.
UnauthenticatedStrict(session) == UserIdOf(session).type \in {"undefined", "null"}
\* !session?.user?.id
Unauthenticated(session) == Falsy(UserIdOf(session))

\* Fault: the failure classified by what it is about, not by its message.
IsUnauthorizedAnyKind(error) == error.kind \in {"unauthorized", "missing"}
\* error instanceof Error && error.message.includes("Unauthorized")
IsUnauthorized(error) == InstanceOfError(error) /\ Includes(error.message, Marker)

\* Fault: the tenant context cached at module level: an invocation reuses the
\* context that another invocation in flight has resolved.
TenantArgShared(q) ==
    LET resolved == {s \in Slots : h[s].ctx # Undefined}
    IN  IF resolved = {} THEN q.ctx.tenantId
        ELSE h[CHOOSE s \in resolved : TRUE].ctx.tenantId
\* ctx.tenantId, params.id, session.user.id as the handler passes them on
TenantArg(q) == q.ctx.tenantId
IdArg(q) == q.id
UserArg(q) == q.session.user.id

\* Fault: any non-empty value of the parameter taken as true.
IsPermanentLoose(v) == ~Falsy(v)
\* searchParams.get("permanent") === "true"
IsPermanent(v) == v.type = "string" /\ v.val = "true"

----------------------------------------------------------------------------
(***************************************************************************)
(* GET /api/entities/[id]                                                  *)
(***************************************************************************)
\* Fault: the unclassified failure logged and thrown again.
GET_catchRethrow(q, error) ==
    IF IsUnauthorized(error)
    THEN NextResponse_json(q, [error |-> "Not found or unauthorized"], 404)
    ELSE [logger_error(q, "Error fetching entity", error) EXCEPT !.pc = "escaped"]
GET_catch(q, error) ==
    IF IsUnauthorized(error)
    THEN NextResponse_json(q, [error |-> "Not found or unauthorized"], 404)
    ELSE NextResponse_json(logger_error(q, "Error fetching entity", error),
                           [error |-> "Internal server error"], 500)

GET_afterSession(q, res) ==
    IF ~res.ok THEN GET_catch(q, res.error)
    ELSE LET s == [q EXCEPT !.session = res.value]
         IN  IF Unauthenticated(s.session)
             THEN NextResponse_json(s, [error |-> "Unauthorized"], 401)
             ELSE Start(s, "tenant")

GET_afterContext(q, res) ==
    IF ~res.ok THEN GET_catch(q, res.error)
    ELSE LET s == [q EXCEPT !.ctx = res.value]
         IN  Start(Call(s, "getEntity", <<TenantArg(s), IdArg(s)>>), "domain")

\* Fault: a failed getEntity is tried once more before the catch block runs.
GET_afterEntityRetry(q, res) ==
    IF ~res.ok /\ Len(q.calls) < 2
    THEN Call(q, "getEntity", <<TenantArg(q), IdArg(q)>>)
    ELSE IF ~res.ok THEN GET_catch(q, res.error)
    ELSE NextResponse_json(q, [success |-> TRUE, data |-> res.value], 200)
GET_afterEntity(q, res) ==
    IF ~res.ok THEN GET_catch(q, res.error)
    ELSE NextResponse_json(q, [success |-> TRUE, data |-> res.value], 200)

(***************************************************************************)
(* PATCH /api/entities/[id]                                                *)
(***************************************************************************)
\* Fault: the validation failure logged as an error too.
PATCH_catchLogAll(q, error) ==
    IF InstanceOfZodError(error)
    THEN NextResponse_json(logger_error(q, "Error updating entity", error),
                           [error |-> "Validation error", details |-> error.errors], 400)
    ELSE IF IsUnauthorized(error)
    THEN NextResponse_json(q, [error |-> "Not found or unauthorized"], 404)
    ELSE NextResponse_json(logger_error(q, "Error updating entity", error),
                           [error |-> "Internal server error"], 500)
PATCH_catch(q, error) ==
    IF InstanceOfZodError(error)
    THEN NextResponse_json(q, [error |-> "Validation error",
                               details |-> error.errors], 400)
    ELSE IF IsUnauthorized(error)
    THEN NextResponse_json(q, [error |-> "Not found or unauthorized"], 404)
    ELSE NextResponse_json(logger_error(q, "Error updating entity", error),
                           [error |-> "Internal server error"], 500)

PATCH_afterSession(q, res) ==
    IF ~res.ok THEN PATCH_catch(q, res.error)
    ELSE LET s == [q EXCEPT !.session = res.value]
         IN  IF Unauthenticated(s.session)
             THEN NextResponse_json(s, [error |-> "Unauthorized"], 401)
             ELSE Start(s, "tenant")

PATCH_afterContext(q, res) ==
    IF ~res.ok THEN PATCH_catch(q, res.error)
    ELSE Start([q EXCEPT !.ctx = res.value], "body")

\* Fault: updateEntity called with the body as read, whatever parse says.
PATCH_validateAndUpdateUnchecked(q) ==
    LET s == Start(q, "validate")
        t == [s EXCEPT !.input = IF s.body.type = "object"
                                 THEN Obj(Strip(s.body.fields)) ELSE s.body]
    IN  Start(Call(t, "updateEntity",
                   <<TenantArg(t), IdArg(t), UserArg(t), t.input>>), "domain")
\* const input = updateEntitySchema.parse(body); await entityService.updateEntity(...)
PATCH_validateAndUpdate(q) ==
    LET s == Start(q, "validate")
        parsed == updateEntitySchema_parse(s.body)
    IN  IF ~parsed.ok THEN PATCH_catch(s, parsed.error)
        ELSE LET t == [s EXCEPT !.input = parsed.value]
             IN  Start(Call(t, "updateEntity",
                            <<TenantArg(t), IdArg(t), UserArg(t), t.input>>), "domain")

PATCH_afterJson(q, res) ==
    IF ~res.ok THEN PATCH_catch(q, res.error)
    ELSE PATCH_validateAndUpdate([q EXCEPT !.body = res.value])

PATCH_afterUpdate(q, res) ==
    IF ~res.ok THEN PATCH_catch(q, res.error)
    ELSE NextResponse_json(
            logger_info(q, "Entity updated successfully", [entityId |-> res.value.id]),
            [success |-> TRUE, data |-> res.value], 200)

(***************************************************************************)
(* DELETE /api/entities/[id]                                               *)
(***************************************************************************)
DELETE_catch(q, error) ==
    IF IsUnauthorized(error)
    THEN NextResponse_json(q, [error |-> "Not found or unauthorized"], 404)
    ELSE NextResponse_json(logger_error(q, "Error deleting entity", error),
                           [error |-> "Internal server error"], 500)

DELETE_afterSession(q, res) ==
    IF ~res.ok THEN DELETE_catch(q, res.error)
    ELSE LET s == [q EXCEPT !.session = res.value]
         IN  IF Unauthenticated(s.session)
             THEN NextResponse_json(s, [error |-> "Unauthorized"], 401)
             ELSE Start(s, "tenant")

DELETE_afterContext(q, res) ==
    IF ~res.ok THEN DELETE_catch(q, res.error)
    ELSE LET s == [q EXCEPT !.ctx = res.value, !.permanent = IsPermanent(q.query)]
         IN  IF s.permanent
             THEN Start(Call(s, "deleteEntity",
                             <<TenantArg(s), IdArg(s), UserArg(s)>>), "domain")
             ELSE Start(Call(s, "archiveEntity",
                             <<TenantArg(s), IdArg(s), UserArg(s)>>), "domain")

DELETE_afterDomain(q, res) ==
    IF ~res.ok THEN DELETE_catch(q, res.error)
    ELSE NextResponse_json(
            logger_info(q, "Entity deleted/archived successfully",
                        [entityId |-> q.id, permanent |-> q.permanent]),
            [success |-> TRUE,
             message |-> IF q.permanent THEN "Entity deleted" ELSE "Entity archived"],
            200)

----------------------------------------------------------------------------
(***************************************************************************)
(* Actions.                                                                *)
(***************************************************************************)
Resume(r, q) == h' = [h EXCEPT ![r] = q] /\ UNCHANGED load

At(r, m, pc) == h[r].method = m /\ h[r].pc = pc

\* A request arrives in a free slot and its handler is invoked.
Arrive(r) ==
    /\ h[r].pc = "idle"
    /\ \E m \in Methods : \E id \in ResourceIds(r) : \E query \in QueryValues(m) :
          \E payload \in Payloads(m) :
             Resume(r, NewRequest(m, id, query, payload))

GET_getServerSession(r) ==
    /\ At(r, "GET", "session")
    /\ \E res \in SessionOutcomes(r) :
          Resume(r, GET_afterSession(Got(h[r], "session", res), res))

GET_getContext(r) ==
    /\ At(r, "GET", "tenant")
    /\ \E res \in ContextOutcomes(r) :
          Resume(r, GET_afterContext(Got(h[r], "tenant", res), res))

GET_getEntity(r) ==
    /\ At(r, "GET", "domain")
    /\ \E res \in EntityOutcomes(h[r].id) :
          Resume(r, GET_afterEntity(Got(h[r], "domain", res), res))

PATCH_getServerSession(r) ==
    /\ At(r, "PATCH", "session")
    /\ \E res \in SessionOutcomes(r) :
          Resume(r, PATCH_afterSession(Got(h[r], "session", res), res))

PATCH_getContext(r) ==
    /\ At(r, "PATCH", "tenant")
    /\ \E res \in ContextOutcomes(r) :
          Resume(r, PATCH_afterContext(Got(h[r], "tenant", res), res))

PATCH_json(r) ==
    /\ At(r, "PATCH", "body")
    /\ LET res == h[r].payload
       IN  Resume(r, PATCH_afterJson(Got(h[r], "body", res), res))

PATCH_updateEntity(r) ==
    /\ At(r, "PATCH", "domain")
    /\ \E res \in EntityOutcomes(h[r].id) :
          Resume(r, PATCH_afterUpdate(Got(h[r], "domain", res), res))

DELETE_getServerSession(r) ==
    /\ At(r, "DELETE", "session")
    /\ \E res \in SessionOutcomes(r) :
          Resume(r, DELETE_afterSession(Got(h[r], "session", res), res))

DELETE_getContext(r) ==
    /\ At(r, "DELETE", "tenant")
    /\ \E res \in ContextOutcomes(r) :
          Resume(r, DELETE_afterContext(Got(h[r], "tenant", res), res))

DELETE_deleteEntity(r) ==
    /\ At(r, "DELETE", "domain")
    /\ h[r].calls[Len(h[r].calls)].op = "deleteEntity"
    /\ \E res \in VoidOutcomes :
          Resume(r, DELETE_afterDomain(Got(h[r], "domain", res), res))

DELETE_archiveEntity(r) ==
    /\ At(r, "DELETE", "domain")
    /\ h[r].calls[Len(h[r].calls)].op = "archiveEntity"
    /\ \E res \in VoidOutcomes :
          Resume(r, DELETE_afterDomain(Got(h[r], "domain", res), res))

\* The framework has sent the returned response; the invocation is over.
Release(r) ==
    /\ h[r].pc = "done"
    /\ Resume(r, NoRequest)

Init == load = "single" /\ h = [r \in {1} |-> NoRequest]
InitConc == load = "concurrent" /\ h = [r \in 1..NReq |-> NoRequest]

Next ==
    \/ \E r \in Slots : Arrive(r)
    \/ \E r \in Slots : GET_getServerSession(r)
    \/ \E r \in Slots : GET_getContext(r)
    \/ \E r \in Slots : GET_getEntity(r)
    \/ \E r \in Slots : PATCH_getServerSession(r)
    \/ \E r \in Slots : PATCH_getContext(r)
    \/ \E r \in Slots : PATCH_json(r)
    \/ \E r \in Slots : PATCH_updateEntity(r)
    \/ \E r \in Slots : DELETE_getServerSession(r)
    \/ \E r \in Slots : DELETE_getContext(r)
    \/ \E r \in Slots : DELETE_deleteEntity(r)
    \/ \E r \in Slots : DELETE_archiveEntity(r)
    \/ \E r \in Slots : Release(r)

Spec == Init /\ [][Next]_vars
SpecConc == InitConc /\ [][Next]_vars

----------------------------------------------------------------------------
(***************************************************************************)
(* Vocabulary of the properties.  These read only what an invocation was   *)
(* given and what it did; none of them uses the handlers' own definitions. *)
(***************************************************************************)
Done(q) == q.pc = "done"
Response(q) == q.responses[1]
Status(q) == Response(q).status

\* The result the awaited call of `step` settled with, once it has.
HasGot(q, step) == \E i \in 1..Len(q.got) : q.got[i].step = step
GotOf(q, step) == q.got[CHOOSE i \in 1..Len(q.got) : q.got[i].step = step].outcome
GotValue(q, step) == HasGot(q, step) /\ GotOf(q, step).ok
GotError(q, step) == HasGot(q, step) /\ ~GotOf(q, step).ok

\* A session value with no non-empty user identifier.
LacksUserId(s) ==
    \/ s.type # "object"
    \/ s.user.type # "object"
    \/ s.user.id.type # "string"
    \/ s.user.id.len = 0

Authenticated(q) == GotValue(q, "session") /\ ~LacksUserId(GotOf(q, "session").value)
TenantResolved(q) == GotValue(q, "tenant")

CallsOf(q, op) == {i \in 1..Len(q.calls) : q.calls[i].op = op}

\* What the claims call a body that violates the UpdateEntityInput contract.
NameViolates(v) ==
    v.type # "undefined" /\ (v.type # "string" \/ v.len = 0 \/ v.len > 255)
StatusViolates(v) ==
    /\ v.type # "undefined"
    /\ (v.type # "string"
        \/ v.val \notin {"ACTIVE", "PENDING", "ARCHIVED", "SUSPENDED"})
TextViolates(v) == v.type \notin {"undefined", "string"}
FieldViolates(k, v) ==
    IF k = "name" THEN NameViolates(v)
    ELSE IF k = "status" THEN StatusViolates(v)
    ELSE TextViolates(v)
PayloadIsObject(q) == q.payload.ok /\ q.payload.value.type = "object"
PayloadViolates(q) ==
    /\ PayloadIsObject(q)
    /\ \E k \in SchemaKeys : FieldViolates(k, q.payload.value.fields[k])
PayloadValid(q) ==
    /\ PayloadIsObject(q)
    /\ \A k \in SchemaKeys : ~FieldViolates(k, q.payload.value.fields[k])

Unauthorized401 == [status |-> 401, body |-> [error |-> "Unauthorized"]]
NotFound404 == [status |-> 404, body |-> [error |-> "Not found or unauthorized"]]
Internal500 == [status |-> 500, body |-> [error |-> "Internal server error"]]

----------------------------------------------------------------------------
\* C1: in GET, PATCH and DELETE alike, when the session lookup returns no
\* session, or a session without a non-empty user identifier, the handler has
\* answered with status 401 and body { error: "Unauthorized" } and nothing else.
C1_Unauthorized401 ==
    \A r \in Slots :
        LET q == h[r]
        IN  (GotValue(q, "session") /\ LacksUserId(GotOf(q, "session").value))
            => /\ Done(q)
               /\ q.responses = <<Unauthorized401>>
               /\ q.calls = <<>>

\* A PATCH whose session carries the empty string as user id was answered 401.
C1_Witness ==
    \E r \in Slots :
        /\ h[r].method = "PATCH"
        /\ GotValue(h[r], "session")
        /\ GotOf(h[r], "session").value = SessionOf(Str("", 0))
        /\ h[r].responses = <<Unauthorized401>>

\* C2 as stated: whenever the domain call of an authenticated request fails
\* with an error that reports the entity unauthorized or missing, the response
\* is 404 { error: "Not found or unauthorized" }, whatever the error's message.
C2_Original ==
    \A r \in Slots :
        LET q == h[r]
        IN  (GotError(q, "domain")
             /\ GotOf(q, "domain").error.kind \in {"unauthorized", "missing"})
            => q.responses = <<NotFound404>>

\* C2, amended: the response to a failed domain call is decided by the thrown
\* value alone: 404 { error: "Not found or unauthorized" } exactly when it is
\* an Error whose message contains "Unauthorized", whatever else the message
\* says and whatever the failure is about; 500 otherwise.
C2_MarkerDecides404 ==
    \A r \in Slots :
        LET q == h[r]
            e == GotOf(q, "domain").error
        IN  GotError(q, "domain")
            => /\ Done(q)
               /\ (e.cls = "Error" /\ Includes(e.message, Marker))
                    => q.responses = <<NotFound404>>
               /\ ~(e.cls = "Error" /\ Includes(e.message, Marker))
                    => q.responses = <<Internal500>>

\* A GET whose domain call failed with "Unauthorized: wrong tenant" got 404.
C2_Witness ==
    \E r \in Slots :
        /\ h[r].method = "GET"
        /\ GotError(h[r], "domain")
        /\ GotOf(h[r], "domain").error = Err("unauthorized", MsgUnauthorizedTenant)
        /\ h[r].responses = <<NotFound404>>

\* C3 as stated: every authenticated PATCH whose body violates the
\* UpdateEntityInput contract is answered 400 "Validation error", and
\* updateEntity is never invoked for it.
C3_Original ==
    \A r \in Slots :
        LET q == h[r]
        IN  (q.method = "PATCH" /\ Authenticated(q) /\ PayloadViolates(q))
            => /\ CallsOf(q, "updateEntity") = {}
               /\ Done(q) => /\ Status(q) = 400
                             /\ Response(q).body.error = "Validation error"

\* C3, amended: every authenticated PATCH whose tenant resolution succeeds and
\* whose body violates the contract is answered 400 with { error: "Validation
\* error", details } where details name exactly the violating fields, and
\* updateEntity is not invoked; without the tenant it is still never invoked.
C3_InvalidBody400 ==
    \A r \in Slots :
        LET q == h[r]
            f == q.payload.value.fields
        IN  (q.method = "PATCH" /\ Authenticated(q) /\ PayloadViolates(q))
            => /\ q.calls = <<>>
               /\ (TenantResolved(q) /\ Done(q))
                    => /\ Len(q.responses) = 1
                       /\ Status(q) = 400
                       /\ DOMAIN Response(q).body = {"error", "details"}
                       /\ Response(q).body.error = "Validation error"
                       /\ \A k \in SchemaKeys :
                            FieldViolates(k, f[k])
                            <=> \E d \in Response(q).body.details : d.path = k
                       /\ \A d \in Response(q).body.details : d.path \in SchemaKeys
               /\ (TenantResolved(q) /\ HasGot(q, "body")) => Done(q)

\* A PATCH with body { name: "" } and a resolved tenant was answered 400.
C3_Witness ==
    \E r \in Slots :
        /\ h[r].method = "PATCH"
        /\ TenantResolved(h[r])
        /\ PayloadIsObject(h[r])
        /\ h[r].payload.value.fields.name = Str("", 0)
        /\ Done(h[r])
        /\ Status(h[r]) = 400
        /\ [path |-> "name", code |-> "too_small"] \in Response(h[r]).body.details

\* C4: an authenticated DELETE whose tenant resolution succeeds invokes exactly
\* one domain operation: deleteEntity when the query parameter permanent is
\* exactly "true", archiveEntity in every other case; when that operation
\* succeeds the response is 200 with message "Entity deleted", respectively
\* "Entity archived".
C4_DeleteOrArchive ==
    \A r \in Slots :
        LET q == h[r]
            hard == q.query = Str("true", 4)
        IN  (q.method = "DELETE" /\ Authenticated(q) /\ TenantResolved(q))
            => /\ Len(q.calls) = 1
               /\ q.calls[1].op = IF hard THEN "deleteEntity" ELSE "archiveEntity"
               /\ GotValue(q, "domain")
                    => q.responses =
                         <<[status |-> 200,
                            body |-> [success |-> TRUE,
                                      message |-> IF hard THEN "Entity deleted"
                                                  ELSE "Entity archived"]]>>

\* A DELETE with ?permanent=true hard-deleted and said so.
C4_Witness ==
    \E r \in Slots :
        /\ h[r].method = "DELETE"
        /\ h[r].query = Str("true", 4)
        /\ CallsOf(h[r], "deleteEntity") = {1}
        /\ Done(h[r])
        /\ Status(h[r]) = 200
        /\ Response(h[r]).body.message = "Entity deleted"

\* The one call an authenticated PATCH with a valid body is to make, and the
\* response to its success.
UpdateCallOf(q) ==
    [op |-> "updateEntity",
     args |-> <<GotOf(q, "tenant").value.tenantId, q.id,
                GotOf(q, "session").value.user.id, q.calls[1].args[4]>>]
InputMatchesBody(input, body) ==
    /\ input.type = "object"
    /\ DOMAIN input.fields = SchemaKeys
    /\ \A k \in SchemaKeys : input.fields[k] = body.fields[k]

\* C5 as stated: every authenticated PATCH with a valid partial body calls
\* updateEntity(resolved tenant id, path id, session user id, input) with input
\* holding exactly the schema fields present in the body, and answers a
\* successful update with 200 { success: true, data: <entity returned> }.
C5_Original ==
    \A r \in Slots :
        LET q == h[r]
        IN  (q.method = "PATCH" /\ Authenticated(q) /\ PayloadValid(q)
             /\ q.pc \in {"domain", "done"})
            => /\ TenantResolved(q)
               /\ Len(q.calls) = 1
               /\ q.calls[1] = UpdateCallOf(q)
               /\ InputMatchesBody(q.calls[1].args[4], q.payload.value)

\* C5, amended: every authenticated PATCH with a valid partial body whose
\* tenant resolution succeeds calls updateEntity(resolved tenant id, path id,
\* session user id, input) once the body is read, with input holding exactly
\* the schema fields present in the body (no absent field, no unknown key);
\* when the update succeeds the response is 200 { success: true, data: <the
\* entity the update returned> }.
C5_ValidBodyUpdates ==
    \A r \in Slots :
        LET q == h[r]
        IN  (q.method = "PATCH" /\ Authenticated(q) /\ PayloadValid(q)
             /\ TenantResolved(q) /\ q.pc \in {"domain", "done"})
            => /\ Len(q.calls) = 1
               /\ q.calls[1] = UpdateCallOf(q)
               /\ InputMatchesBody(q.calls[1].args[4], q.payload.value)
               /\ GotValue(q, "domain")
                    => q.responses =
                         <<[status |-> 200,
                            body |-> [success |-> TRUE,
                                      data |-> GotOf(q, "domain").value]]>>

\* A PATCH with body { legalForm: "LLC", extra: "x" } updated with legalForm
\* alone and returned the updated entity.
C5_Witness ==
    \E r \in Slots :
        /\ h[r].method = "PATCH"
        /\ PayloadIsObject(h[r])
        /\ h[r].payload.value.fields =
              [name |-> Undefined, legalForm |-> Str("LLC", 3), status |-> Undefined,
               activityCode |-> Undefined, extra |-> Str("x", 1)]
        /\ Len(h[r].calls) = 1
        /\ h[r].calls[1].args[4].fields =
              [name |-> Undefined, legalForm |-> Str("LLC", 3), status |-> Undefined,
               activityCode |-> Undefined]
        /\ Done(h[r])
        /\ Status(h[r]) = 200
        /\ Response(h[r]).body.data = Entity(h[r].id, "v2")

AllowedStatus(m) == {200, 401, 404, 500} \cup (IF m = "PATCH" THEN {400} ELSE {})

\* C6: no failure of the session lookup, the tenant resolution, the body read,
\* the validation or the entityService call leaves the handler: as soon as one
\* is raised the invocation is over with exactly one response, no invocation
\* produces a response before it is over or more than one, and the status is
\* one of 200, 400 (PATCH only), 401, 404, 500.
C6_ErrorsCaught ==
    \A r \in Slots :
        LET q == h[r]
        IN  /\ q.pc \in {"idle", "session", "tenant", "body", "domain", "done"}
            /\ Done(q) => /\ Len(q.responses) = 1
                          /\ Status(q) \in AllowedStatus(q.method)
            /\ ~Done(q) => q.responses = <<>>
            /\ \A i \in 1..Len(q.got) : ~q.got[i].outcome.ok => Done(q)
            /\ (HasGot(q, "body") /\ ~PayloadValid(q)) => Done(q)

\* A GET whose domain call threw a plain string was answered 500.
C6_Witness ==
    \E r \in Slots :
        /\ h[r].method = "GET"
        /\ GotError(h[r], "domain")
        /\ GotOf(h[r], "domain").error = ThrownString(Marker)
        /\ h[r].responses = <<Internal500>>

Canonical(m) ==
    IF m = "PATCH" THEN <<"session", "tenant", "body", "validate", "domain">>
    ELSE <<"session", "tenant", "domain">>
IsPrefix(a, b) == Len(a) <= Len(b) /\ SubSeq(b, 1, Len(a)) = a
InSeq(x, s) == \E i \in 1..Len(s) : s[i] = x
StepsOf(q) ==
    IF Len(q.started) > 0 /\ q.started[Len(q.started)] = "response"
    THEN SubSeq(q.started, 1, Len(q.started) - 1)
    ELSE q.started

\* C7: the steps an invocation starts are a prefix of session, tenant, (body,
\* validate: PATCH only), domain, closed by the response: tenant resolution is
\* started only once the session check has passed, validation only once tenant
\* resolution has returned, the domain call only once validation has passed,
\* and the response is the last step.
C7_StepOrder ==
    \A r \in Slots :
        LET q == h[r]
        IN  q.pc # "idle"
            => /\ IsPrefix(StepsOf(q), Canonical(q.method))
               /\ ~InSeq("response", StepsOf(q))
               /\ Done(q) <=> InSeq("response", q.started)
               /\ InSeq("tenant", q.started) => Authenticated(q)
               /\ InSeq("validate", q.started)
                    => TenantResolved(q) /\ GotValue(q, "body")
               /\ InSeq("domain", q.started)
                    => /\ TenantResolved(q)
                       /\ Len(q.calls) = 1
                       /\ q.method = "PATCH" => PayloadValid(q)
               /\ ~InSeq("domain", q.started) => q.calls = <<>>

\* A PATCH went through all its steps.
C7_Witness ==
    \E r \in Slots :
        h[r].started = <<"session", "tenant", "body", "validate", "domain", "response">>

\* C8: logger.error is invoked for an invocation exactly when its response is
\* status 500 (once, before the response); that response's body is exactly
\* { error: "Internal server error" }; responses 400, 401 and 404 come with no
\* error-log entry.
C8_ErrorLogIff500 ==
    \A r \in Slots :
        LET q == h[r]
        IN  /\ ~Done(q) => q.errorLog = <<>>
            /\ Done(q) => /\ Len(q.errorLog) = (IF Status(q) = 500 THEN 1 ELSE 0)
                          /\ Status(q) = 500 => q.responses = <<Internal500>>
                          /\ Status(q) = 500
                               => \E i \in 1..Len(q.got) :
                                    /\ ~q.got[i].outcome.ok
                                    /\ q.errorLog[1].error = q.got[i].outcome.error

\* A PATCH whose update failed with "Entity not found" was answered 500 and the
\* error logged.
C8_Witness ==
    \E r \in Slots :
        /\ h[r].method = "PATCH"
        /\ h[r].responses = <<Internal500>>
        /\ Len(h[r].errorLog) = 1
        /\ h[r].errorLog[1].error = Err("missing", MsgNotFound)

\* The response an invocation's own arguments and awaited results call for.
FailureResponse(m, e) ==
    IF e.cls = "Error" /\ Includes(e.message, Marker) THEN NotFound404 ELSE Internal500
SuccessResponse(q) ==
    IF q.method = "DELETE"
    THEN [status |-> 200,
          body |-> [success |-> TRUE,
                    message |-> IF q.query = Str("true", 4) THEN "Entity deleted"
                                ELSE "Entity archived"]]
    ELSE [status |-> 200,
          body |-> [success |-> TRUE, data |-> GotOf(q, "domain").value]]
OwnResponse(q) ==
    IF GotError(q, "session") THEN FailureResponse(q.method, GotOf(q, "session").error)
    ELSE IF ~Authenticated(q) THEN Unauthorized401
    ELSE IF GotError(q, "tenant") THEN FailureResponse(q.method, GotOf(q, "tenant").error)
    ELSE IF q.method = "PATCH" /\ ~q.payload.ok
         THEN FailureResponse(q.method, q.payload.error)
    ELSE IF q.method = "PATCH" /\ ~PayloadValid(q)
         THEN [status |-> 400,
               body |-> [error |-> "Validation error",
                         details |-> updateEntitySchema_parse(q.payload.value).error.errors]]
    ELSE IF GotError(q, "domain") THEN FailureResponse(q.method, GotOf(q, "domain").error)
    ELSE SuccessResponse(q)

\* C9: with several invocations in flight and interleaved at their awaits,
\* every entityService call of an invocation carries the tenant id resolved
\* for that invocation, its own path id and its own session's user id, and
\* its response is the one its own arguments and awaited results call for.
C9_NoInterference ==
    \A r \in Slots :
        LET q == h[r]
        IN  /\ \A i \in 1..Len(q.calls) :
                 /\ TenantResolved(q) /\ Authenticated(q)
                 /\ q.calls[i].args[1] = GotOf(q, "tenant").value.tenantId
                 /\ q.calls[i].args[2] = q.id
                 /\ Len(q.calls[i].args) >= 3
                      => q.calls[i].args[3] = GotOf(q, "session").value.user.id
            /\ Done(q) => q.responses = <<OwnResponse(q)>>

\* Two invocations of different tenants both have their domain call in flight.
C9_Witness ==
    \E r1 \in Slots : \E r2 \in Slots :
        /\ r1 # r2
        /\ h[r1].pc = "domain" /\ h[r2].pc = "domain"
        /\ h[r1].method = "PATCH" /\ h[r2].method = "DELETE"
        /\ h[r1].calls[1].args[1] # h[r2].calls[1].args[1]
        /\ h[r1].calls[1].args[3] # h[r2].calls[1].args[3]

OperationsOf(m) ==
    IF m = "GET" THEN {"getEntity"}
    ELSE IF m = "PATCH" THEN {"updateEntity"}
    ELSE {"deleteEntity", "archiveEntity"}

\* C10: an invocation makes at most one entityService call, one of its own
\* method's operations, and never again after it settled; a 200 success
\* response is given only when that one call was made and returned without
\* error; a PATCH is answered 400 only when updateEntity was not invoked.
C10_OneCallNoRetry ==
    \A r \in Slots :
        LET q == h[r]
        IN  /\ Len(q.calls) <= 1
            /\ \A i \in 1..Len(q.calls) : q.calls[i].op \in OperationsOf(q.method)
            /\ Cardinality({i \in 1..Len(q.got) : q.got[i].step = "domain"}) <= 1
            /\ (Done(q) /\ Status(q) = 200)
                 => /\ Len(q.calls) = 1
                    /\ GotValue(q, "domain")
                    /\ Response(q).body.success = TRUE
            /\ (Done(q) /\ q.method = "PATCH" /\ Status(q) = 400) => q.calls = <<>>

\* A DELETE archived with its single call and was answered 200.
C10_Witness ==
    \E r \in Slots :
        /\ h[r].method = "DELETE"
        /\ Len(h[r].calls) = 1
        /\ h[r].calls[1].op = "archiveEntity"
        /\ GotValue(h[r], "domain")
        /\ Done(h[r])
        /\ Status(h[r]) = 200

====
